---- MODULE Spec2Model ----
(***************************************************************************)
(* A model of the task-glitch analytics engine (utils/logic) and of the    *)
(* useTasks hook that stores the task collection and feeds the engine.     *)
(*                                                                         *)
(* JavaScript numbers are modelled as exact rationals that overflow to     *)
(* +/-Infinity beyond MaxDouble, together with NaN; null/undefined is a    *)
(* fourth kind of the same record so that values stay comparable.          *)
(* ISO timestamps are records of their calendar fields; a Date is the      *)
(* number of hours since 1970-01-01T00:00Z.  Strings that the code orders  *)
(* with localeCompare are sequences of character codes.                    *)
(***************************************************************************)
EXTENDS Integers, Sequences, FiniteSets, TLC

VARIABLES
  tasks,            \* the task collection (hook state `tasks`, engine input)
  pc,               \* which engine operation has been applied to `tasks`
  derived,          \* tasks.map(withDerived)
  sorted,           \* sortTasks(derived)
  reordered,        \* a second ordering of `derived`
  sortedReordered,  \* sortTasks(reordered)
  avgROI,           \* computeAverageROI(tasks)
  pipeline,         \* computeWeightedPipeline(tasks), first copy
  pipelineAlt,      \* computeWeightedPipeline(tasks), second copy
  velocity,         \* computeVelocityByPriority(tasks)
  thrown,           \* the exception an engine call ended with, or "none"
  funnel,           \* computeFunnel(tasks)
  cohort,           \* computeCohortRevenue(tasks)
  throughput,       \* computeThroughputByWeek(tasks)
  weekly,           \* the series given to computeForecast
  horizon,          \* horizonWeeks given to computeForecast
  forecast,         \* computeForecast(weekly, horizon)
  lastDeleted,      \* hook state `lastDeleted` (a sequence: empty = null)
  undoSeen,         \* the lastDeleted captured by the rendered undoDelete closure
  loading,          \* hook state `loading`
  error,            \* hook state `error`
  initializedRef,   \* initializedRef.current / loadedRef.current
  fetch,            \* the seed fetch: "idle", "inflight" or "settled"
  uuids,            \* how many crypto.randomUUID() values have been drawn
  fetches,          \* how many times fetch('/tasks.json') has been called
  effectRuns        \* how many times the mount effect has run

vars == <<tasks, pc, derived, sorted, reordered, sortedReordered, avgROI,
          pipeline, pipelineAlt, velocity, thrown, funnel, cohort, throughput,
          weekly, horizon, forecast, lastDeleted, undoSeen, loading, error,
          initializedRef, fetch, uuids, fetches, effectRuns>>

engineVars == <<derived, sorted, reordered, sortedReordered, avgROI, pipeline,
                pipelineAlt, velocity, thrown, funnel, cohort, throughput,
                weekly, horizon, forecast>>

storeVars == <<lastDeleted, undoSeen, loading, error, initializedRef, fetch,
               uuids, fetches, effectRuns>>

(***************************************************************************)
(* Bounds of the model.                                                    *)
(***************************************************************************)
MaxDouble == 1000      \* stands for Number.MAX_VALUE: larger magnitudes overflow
MaxTasks == 3          \* longest collection given to an engine function
MaxReorder == 2        \* longest collection whose orderings are compared
MaxWeekTasks == 2      \* longest collection bucketed by week
MaxSeries == 3         \* longest weekly series given to computeForecast
MaxHorizon == 3        \* largest horizonWeeks
MaxStore == 2          \* longest collection the hook model holds
MaxUuid == 1           \* crypto.randomUUID() values the hook model may draw
MaxEffectRuns == 2     \* runs of the mount effect (React may run it again)

(***************************************************************************)
(* JavaScript numbers.                                                     *)
(***************************************************************************)
Abs(x) == IF x < 0 THEN -x ELSE x

Sign(x) == IF x < 0 THEN -1 ELSE IF x > 0 THEN 1 ELSE 0

RECURSIVE Gcd(_, _)
Gcd(a, b) == IF b = 0 THEN a ELSE Gcd(b, a % b)

\* the finite number n/d in lowest terms, d > 0
Fin(n, d) ==
  LET s == IF d < 0 THEN -1 ELSE 1
      g == Gcd(Abs(n), Abs(d))
  IN [k |-> "fin", n |-> (s * n) \div g, d |-> (s * d) \div g]

PosInf == [k |-> "inf", n |-> 1, d |-> 1]

NegInf == [k |-> "inf", n |-> -1, d |-> 1]

NaN == [k |-> "nan", n |-> 0, d |-> 1]

\* null and undefined
Null == [k |-> "null", n |-> 0, d |-> 1]

Zero == Fin(0, 1)

Num(i) == Fin(i, 1)

\* the double nearest to n/d (d # 0): itself, or an infinity on overflow
Fl(n, d) ==
  LET v == Fin(n, d)
  IN IF Abs(v.n) > MaxDouble * v.d
       THEN (IF v.n > 0 THEN PosInf ELSE NegInf)
       ELSE v

\* Number.isFinite(x)
IsFinite(x) == x.k = "fin"

\* typeof x === 'number'
IsNumber(x) == x.k \in {"fin", "inf", "nan"}

\* x ?? y
Coalesce(x, y) == IF x.k = "null" THEN y ELSE x

NumNeg(a) == IF a.k \in {"fin", "inf"} THEN [a EXCEPT !.n = -a.n] ELSE a

\* a + b
NumAdd(a, b) ==
  IF a.k = "nan" \/ b.k = "nan" THEN NaN
  ELSE IF a.k = "inf" /\ b.k = "inf" THEN (IF a.n = b.n THEN a ELSE NaN)
  ELSE IF a.k = "inf" THEN a
  ELSE IF b.k = "inf" THEN b
  ELSE Fl(a.n * b.d + b.n * a.d, a.d * b.d)

\* a - b
NumSub(a, b) == NumAdd(a, NumNeg(b))

\* a * b
NumMul(a, b) ==
  IF a.k = "nan" \/ b.k = "nan" THEN NaN
  ELSE IF a.k = "inf" \/ b.k = "inf"
    THEN (IF a.n = 0 \/ b.n = 0 THEN NaN
          ELSE IF Sign(a.n) = Sign(b.n) THEN PosInf ELSE NegInf)
  ELSE Fl(a.n * b.n, a.d * b.d)

\* a / b
NumDiv(a, b) ==
  IF a.k = "nan" \/ b.k = "nan" THEN NaN
  ELSE IF a.k = "inf" /\ b.k = "inf" THEN NaN
  ELSE IF a.k = "inf"
    THEN (IF Sign(a.n) * (IF b.n < 0 THEN -1 ELSE 1) > 0 THEN PosInf ELSE NegInf)
  ELSE IF b.k = "inf" THEN Zero
  ELSE IF b.n = 0
    THEN (IF a.n = 0 THEN NaN ELSE IF a.n > 0 THEN PosInf ELSE NegInf)
  ELSE Fl(a.n * b.d, a.d * b.n)

\* a < b
NumLt(a, b) ==
  IF a.k = "nan" \/ b.k = "nan" THEN FALSE
  ELSE IF a.k = "inf" THEN a.n < 0 /\ ~(b.k = "inf" /\ b.n < 0)
  ELSE IF b.k = "inf" THEN b.n > 0
  ELSE a.n * b.d < b.n * a.d

\* a <= b
NumLe(a, b) ==
  IF a.k = "nan" \/ b.k = "nan" THEN FALSE ELSE ~NumLt(b, a)

\* a === b, for two numbers
NumEq(a, b) == a.k # "nan" /\ b.k # "nan" /\ a = b

\* Math.max(a, b)
NumMax(a, b) ==
  IF a.k = "nan" \/ b.k = "nan" THEN NaN
  ELSE IF NumLt(a, b) THEN b ELSE a

(***************************************************************************)
(* Strings ordered by String.prototype.localeCompare: sequences of         *)
(* one-character strings, compared as the default (root, tertiary          *)
(* strength) collation compares them: first by the primary weights         *)
(* (punctuation before digits before letters, case ignored), and among     *)
(* strings with equal primary weights lower case before upper case.        *)
(***************************************************************************)
Digits == <<"0", "1", "2", "3", "4", "5", "6", "7", "8", "9">>

Primary(c) ==
  CASE c = "-" -> 1
    [] c = "0" -> 2 [] c = "1" -> 3 [] c = "2" -> 4 [] c = "3" -> 5
    [] c = "4" -> 6 [] c = "5" -> 7 [] c = "6" -> 8 [] c = "7" -> 9
    [] c = "8" -> 10 [] c = "9" -> 11
    [] c \in {"a", "A"} -> 12
    [] c \in {"b", "B"} -> 13
    [] c \in {"w", "W"} -> 14

Tertiary(c) == IF c \in {"A", "B", "W"} THEN 1 ELSE 0

\* -1, 0 or 1: the lexicographic order of two sequences of weights
RECURSIVE LexCompare(_, _)
LexCompare(s, t) ==
  IF s = <<>> THEN (IF t = <<>> THEN 0 ELSE -1)
  ELSE IF t = <<>> THEN 1
  ELSE IF Head(s) < Head(t) THEN -1
  ELSE IF Head(s) > Head(t) THEN 1
  ELSE LexCompare(Tail(s), Tail(t))

\* a.localeCompare(b)
localeCompare(a, b) ==
  LET p == LexCompare([i \in 1..Len(a) |-> Primary(a[i])],
                      [i \in 1..Len(b) |-> Primary(b[i])])
  IN IF p # 0 THEN p
     ELSE LexCompare([i \in 1..Len(a) |-> Tertiary(a[i])],
                     [i \in 1..Len(b) |-> Tertiary(b[i])])

\* `${n}` for an integer n >= 0: its decimal digits, no padding
RECURSIVE ToDigits(_)
ToDigits(n) ==
  IF n < 10 THEN <<Digits[n + 1]>>
  ELSE Append(ToDigits(n \div 10), Digits[(n % 10) + 1])

(***************************************************************************)
(* Array.prototype.sort with a comparator that returns a number: the       *)
(* stable sort (ES2019).  cmp[i, j] is the comparator's result for the     *)
(* elements s[i] and s[j]; x is placed before the elements y of the sorted *)
(* prefix with cmp(y, x) > 0, behind the others.                           *)
(***************************************************************************)
ArraySort(s, cmp) ==
  LET RECURSIVE Insert(_, _)
      Insert(pre, x) ==
        IF pre = <<>> THEN <<x>>
        ELSE IF NumLt(Zero, cmp[pre[Len(pre)], x])
          THEN Append(Insert(SubSeq(pre, 1, Len(pre) - 1), x), pre[Len(pre)])
          ELSE Append(pre, x)
      RECURSIVE Sort(_)
      Sort(n) == IF n = 0 THEN <<>> ELSE Insert(Sort(n - 1), n)
      order == Sort(Len(s))
  IN IF s = <<>> THEN <<>> ELSE [k \in 1..Len(s) |-> s[order[k]]]

(***************************************************************************)
(* Dates.  An ISO-8601 timestamp is the record of its fields (y, m, d and  *)
(* the hour h); new Date(iso).getTime() is counted in hours since the      *)
(* epoch.  NoDate is an absent (undefined) timestamp.                      *)
(***************************************************************************)
HoursPerDay == 24

Iso(y, m, d, h) == [y |-> y, m |-> m, d |-> d, h |-> h]

NoDate == Iso(0, 0, 0, 0)

\* Date.UTC(y, m - 1, d) in days since 1970-01-01 (proleptic Gregorian)
DaysFromCivil(y, m, d) ==
  LET yy == IF m <= 2 THEN y - 1 ELSE y
      era == yy \div 400
      yoe == yy - era * 400
      mp == IF m > 2 THEN m - 3 ELSE m + 9
      doy == (153 * mp + 2) \div 5 + d - 1
      doe == yoe * 365 + yoe \div 4 - yoe \div 100 + doy
  IN era * 146097 + doe - 719468

\* the calendar fields of a day number
CivilFromDays(z) ==
  LET Fields(era, yoe, doy, mp) ==
        [y |-> yoe + era * 400 + (IF mp < 10 THEN 0 ELSE 1),
         m |-> IF mp < 10 THEN mp + 3 ELSE mp - 9,
         d |-> doy - (153 * mp + 2) \div 5 + 1]
      OfDayOfYear(era, yoe, doy) == Fields(era, yoe, doy, (5 * doy + 2) \div 153)
      OfYearOfEra(era, doe, yoe) ==
        OfDayOfYear(era, yoe, doe - (365 * yoe + yoe \div 4 - yoe \div 100))
      OfDayOfEra(era, doe) ==
        OfYearOfEra(era, doe,
          (doe - doe \div 1460 + doe \div 36524 - doe \div 146096) \div 365)
  IN OfDayOfEra((z + 719468) \div 146097, (z + 719468) % 146097)

\* new Date(iso).getTime()
DateParse(iso) == DaysFromCivil(iso.y, iso.m, iso.d) * HoursPerDay + iso.h

getUTCFullYear(t) == CivilFromDays(t \div HoursPerDay).y

getUTCMonth(t) == CivilFromDays(t \div HoursPerDay).m

getUTCDate(t) == CivilFromDays(t \div HoursPerDay).d

\* 0 = Sunday .. 6 = Saturday; 1970-01-01 was a Thursday
getUTCDay(t) == ((t \div HoursPerDay) + 4) % 7

getWeekNumber(d) ==
  LET \* Math.ceil((((t.getTime() - y.getTime()) / 86400000) + 1) / 7)
      Week(t, y) == ((t - y) \div HoursPerDay + 1 + 6) \div 7
      \* y = new Date(Date.UTC(t.getUTCFullYear(), 0, 1))
      OfThursday(t) == Week(t, DaysFromCivil(getUTCFullYear(t), 1, 1) * HoursPerDay)
      \* t.setUTCDate(t.getUTCDate() + 4 - dayNum)
      SetUTCDate(t, dayNum) == OfThursday(t + (4 - dayNum) * HoursPerDay)
      \* t.getUTCDay() || 7
      OfDay(t, dow) == SetUTCDate(t, IF dow = 0 THEN 7 ELSE dow)
      OfMidnight(t) == OfDay(t, getUTCDay(t))
  IN OfMidnight(DaysFromCivil(getUTCFullYear(d), getUTCMonth(d), getUTCDate(d))
                  * HoursPerDay)

\* `${d.getUTCFullYear()}-W${getWeekNumber(d)}`
WeekKey(d) ==
  ToDigits(getUTCFullYear(d)) \o <<"-", "W">> \o ToDigits(getWeekNumber(d))

(***************************************************************************)
(* The engine: derivation and ranking.                                     *)
(***************************************************************************)
Priorities == {"High", "Medium", "Low"}

Statuses == {"Todo", "In Progress", "Done"}

Task(id, title, revenue, timeTaken, priority, status, createdAt, completedAt) ==
  [id |-> id, title |-> title, revenue |-> revenue, timeTaken |-> timeTaken,
   priority |-> priority, status |-> status, createdAt |-> createdAt,
   completedAt |-> completedAt]

computeROI(revenue, timeTaken) ==
  IF ~IsFinite(revenue) \/ ~IsFinite(timeTaken) \/ NumLe(timeTaken, Zero)
    THEN Null
    ELSE NumDiv(revenue, timeTaken)

computePriorityWeight(priority) ==
  IF priority = "High" THEN 3
  ELSE IF priority = "Medium" THEN 2
  ELSE 1

withDerived(task) ==
  [id |-> task.id, title |-> task.title, revenue |-> task.revenue,
   timeTaken |-> task.timeTaken, priority |-> task.priority,
   status |-> task.status, createdAt |-> task.createdAt,
   completedAt |-> task.completedAt,
   roi |-> computeROI(task.revenue, task.timeTaken),
   priorityWeight |-> computePriorityWeight(task.priority)]

\* tasks.map(withDerived)
MapDerived(ts) == [i \in 1..Len(ts) |-> withDerived(ts[i])]

\* the comparator without its title tie-break
TaskCompareNoTieBreak(a, b) ==
  LET aROI == Coalesce(a.roi, NegInf)
      bROI == Coalesce(b.roi, NegInf)
  IN IF ~NumEq(bROI, aROI) THEN NumSub(bROI, aROI)
     ELSE Num(b.priorityWeight - a.priorityWeight)

\* the comparator of sortTasks
TaskCompare(a, b) ==
  LET aROI == Coalesce(a.roi, NegInf)
      bROI == Coalesce(b.roi, NegInf)
  IN IF ~NumEq(bROI, aROI) THEN NumSub(bROI, aROI)
     ELSE IF b.priorityWeight # a.priorityWeight
       THEN Num(b.priorityWeight - a.priorityWeight)
     ELSE Num(localeCompare(a.title, b.title))

sortTasks(ts) ==
  ArraySort(ts, [i \in 1..Len(ts), j \in 1..Len(ts) |-> TaskCompare(ts[i], ts[j])])

(***************************************************************************)
(* The engine: aggregate metrics.                                          *)
(***************************************************************************)
\* values.reduce((s, v) => s + v, 0)
RECURSIVE ReduceAdd(_)
ReduceAdd(values) ==
  IF values = <<>> THEN Zero
  ELSE NumAdd(ReduceAdd(SubSeq(values, 1, Len(values) - 1)), values[Len(values)])

\* the average without the filter: null adds 0 and every task is counted
computeAverageROIOverAll(ts) ==
  LET rois == [i \in 1..Len(ts) |-> computeROI(ts[i].revenue, ts[i].timeTaken)]
      values == [i \in 1..Len(ts) |-> Coalesce(rois[i], Zero)]
  IN IF Len(values) # 0
       THEN NumDiv(ReduceAdd(values), Num(Len(values)))
       ELSE Zero

computeAverageROI(ts) ==
  LET rois == [i \in 1..Len(ts) |-> computeROI(ts[i].revenue, ts[i].timeTaken)]
      values == SelectSeq(rois, IsNumber)
  IN IF Len(values) # 0
       THEN NumDiv(ReduceAdd(values), Num(Len(values)))
       ELSE Zero

(***************************************************************************)
(* The engine: analytics.                                                  *)
(***************************************************************************)
\* tasks.filter(t => t.status === st).length
CountStatus(ts, st) == Cardinality({i \in 1..Len(ts) : ts[i].status = st})

computeFunnel(ts) ==
  LET todo == CountStatus(ts, "Todo")
      inProgress == CountStatus(ts, "In Progress")
      done == CountStatus(ts, "Done")
      total == todo + inProgress + done
  IN [todo |-> todo, inProgress |-> inProgress, done |-> done,
      conversionTodoToInProgress |->
        IF total # 0 THEN NumDiv(Num(inProgress + done), Num(total)) ELSE Zero,
      conversionInProgressToDone |->
        IF inProgress # 0 THEN NumDiv(Num(done), Num(inProgress)) ELSE Zero]

\* Math.round(n / d) for d > 0: halves round up
MathRound(n, d) == (2 * n + d) \div (2 * d)

daysBetween(aISO, bISO) ==
  LET a == DateParse(aISO)
      b == DateParse(bISO)
      r == MathRound(b - a, HoursPerDay)
  IN IF r < 0 THEN 0 ELSE r

\* !t.completedAt is false
HasCompletedAt(t) == t.completedAt # NoDate

\* groups[p] after the forEach: the days of the completed tasks of priority p
RECURSIVE VelocityGroup(_, _)
VelocityGroup(ts, p) ==
  IF ts = <<>> THEN <<>>
  ELSE LET t == ts[Len(ts)]
           rest == VelocityGroup(SubSeq(ts, 1, Len(ts) - 1), p)
       IN IF HasCompletedAt(t) /\ t.priority = p
            THEN Append(rest, daysBetween(t.createdAt, t.completedAt))
            ELSE rest

\* groups[t.priority] is undefined and .push on it throws a TypeError
VelocityThrows(ts) ==
  \E i \in 1..Len(ts) : HasCompletedAt(ts[i]) /\ ts[i].priority \notin Priorities

NumberCompare(a, b) == Num(a - b)

VelocityStats(group) ==
  LET arr == ArraySort(group,
                 [i \in 1..Len(group), j \in 1..Len(group) |->
                    NumberCompare(group[i], group[j])])
  IN IF Len(arr) = 0
       THEN [avgDays |-> Zero, medianDays |-> Zero]
       ELSE [avgDays |->
               NumDiv(ReduceAdd([i \in 1..Len(arr) |-> Num(arr[i])]), Num(Len(arr))),
             medianDays |-> Num(arr[(Len(arr) \div 2) + 1])]

\* the value returned when no TypeError is thrown
computeVelocityByPriority(ts) ==
  [p \in Priorities |-> VelocityStats(VelocityGroup(ts, p))]

\* weights[t.status]
PipelineWeight(status) ==
  CASE status = "Todo" -> Fin(1, 10)
    [] status = "In Progress" -> Fin(1, 2)
    [] status = "Done" -> Num(1)
    [] OTHER -> Null

\* sum + t.revenue * (weights[t.status] ?? 0)
RECURSIVE computeWeightedPipeline(_)
computeWeightedPipeline(ts) ==
  IF ts = <<>> THEN Zero
  ELSE LET t == ts[Len(ts)]
       IN NumAdd(computeWeightedPipeline(SubSeq(ts, 1, Len(ts) - 1)),
                 NumMul(t.revenue, Coalesce(PipelineWeight(t.status), Zero)))

\* the second copy: sum + t.revenue * weights[t.status]; undefined becomes NaN
RECURSIVE computeWeightedPipelineCopy(_)
computeWeightedPipelineCopy(ts) ==
  IF ts = <<>> THEN Zero
  ELSE LET t == ts[Len(ts)]
       IN NumAdd(computeWeightedPipelineCopy(SubSeq(ts, 1, Len(ts) - 1)),
                 NumMul(t.revenue, Coalesce(PipelineWeight(t.status), NaN)))

\* the index of key in a sequence of map entries, 0 when absent
MapIndex(entries, key) ==
  IF \E i \in 1..Len(entries) : entries[i].key = key
    THEN CHOOSE i \in 1..Len(entries) : entries[i].key = key
    ELSE 0

\* the Map of computeThroughputByWeek after the forEach, in insertion order
RECURSIVE ThroughputMap(_)
ThroughputMap(ts) ==
  LET Set(map, key, i, t) ==
        IF i = 0
          THEN Append(map, [key |-> key, count |-> 1,
                            revenue |-> NumAdd(Zero, t.revenue)])
          ELSE [map EXCEPT ![i] =
                  [key |-> key, count |-> @.count + 1,
                   revenue |-> NumAdd(@.revenue, t.revenue)]]
      Put(map, key, t) == Set(map, key, MapIndex(map, key), t)
      ForEach(map, t) ==
        IF ~HasCompletedAt(t) THEN map
        ELSE Put(map, WeekKey(DateParse(t.completedAt)), t)
  IN IF ts = <<>> THEN <<>>
     ELSE ForEach(ThroughputMap(SubSeq(ts, 1, Len(ts) - 1)), ts[Len(ts)])

EntryCompare(a, b) == Num(localeCompare(a.key, b.key))

computeThroughputByWeek(ts) ==
  LET Entries(es) ==
        [i \in 1..Len(es) |->
           [week |-> es[i].key, count |-> es[i].count, revenue |-> es[i].revenue]]
      Sorted(map) ==
        Entries(ArraySort(map, [i \in 1..Len(map), j \in 1..Len(map) |->
                                 EntryCompare(map[i], map[j])]))
  IN Sorted(ThroughputMap(ts))

\* the Map of computeCohortRevenue: its key is `${week}|${priority}`
RECURSIVE CohortMap(_)
CohortMap(ts) ==
  LET Set(map, key, i, t) ==
        IF i = 0
          THEN Append(map, [key |-> key, revenue |-> NumAdd(Zero, t.revenue)])
          ELSE [map EXCEPT ![i] =
                  [key |-> key, revenue |-> NumAdd(@.revenue, t.revenue)]]
      Put(map, key, t) == Set(map, key, MapIndex(map, key), t)
      ForEach(map, t) ==
        Put(map, <<WeekKey(DateParse(t.createdAt)), t.priority>>, t)
  IN IF ts = <<>> THEN <<>>
     ELSE ForEach(CohortMap(SubSeq(ts, 1, Len(ts) - 1)), ts[Len(ts)])

computeCohortRevenue(ts) ==
  LET Entries(map) ==
        [i \in 1..Len(map) |->
           [week |-> map[i].key[1], priority |-> map[i].key[2],
            revenue |-> map[i].revenue]]
  IN Entries(CohortMap(ts))

\* x || 1
OrOne(x) == IF x.k = "nan" \/ x = Zero THEN Num(1) ELSE x

\* the forecast without Math.max(0, ...)
computeForecastUnfloored(series, horizonWeeks) ==
  IF Len(series) < 2 THEN <<>>
  ELSE
    LET n == Len(series)
        y == [i \in 1..n |-> series[i].revenue]
        x == [i \in 1..n |-> Num(i - 1)]
        sumX == ReduceAdd(x)
        sumY == ReduceAdd(y)
        sumXY == ReduceAdd([i \in 1..n |-> NumMul(x[i], y[i])])
        sumXX == ReduceAdd([i \in 1..n |-> NumMul(x[i], x[i])])
        slope == NumDiv(NumSub(NumMul(Num(n), sumXY), NumMul(sumX, sumY)),
                        OrOne(NumSub(NumMul(Num(n), sumXX), NumMul(sumX, sumX))))
        intercept == NumDiv(NumSub(sumY, NumMul(slope, sumX)), Num(n))
    IN [i \in 1..horizonWeeks |->
         [week |-> <<"+">> \o ToDigits(i),
          revenue |-> NumAdd(NumMul(slope, Num(n + (i - 1))), intercept)]]

computeForecast(series, horizonWeeks) ==
  IF Len(series) < 2 THEN <<>>
  ELSE
    LET n == Len(series)
        y == [i \in 1..n |-> series[i].revenue]
        x == [i \in 1..n |-> Num(i - 1)]
        sumX == ReduceAdd(x)
        sumY == ReduceAdd(y)
        sumXY == ReduceAdd([i \in 1..n |-> NumMul(x[i], y[i])])
        sumXX == ReduceAdd([i \in 1..n |-> NumMul(x[i], x[i])])
        slope == NumDiv(NumSub(NumMul(Num(n), sumXY), NumMul(sumX, sumY)),
                        OrOne(NumSub(NumMul(Num(n), sumXX), NumMul(sumX, sumX))))
        intercept == NumDiv(NumSub(sumY, NumMul(slope, sumX)), Num(n))
    IN [i \in 1..horizonWeeks |->
         [week |-> <<"+">> \o ToDigits(i),
          revenue |-> NumMax(Zero,
                        NumAdd(NumMul(slope, Num(n + (i - 1))), intercept))]]

(***************************************************************************)
(* Inputs and initial values shared by the specifications.                 *)
(***************************************************************************)
\* all sequences over S of length at most n
SeqsUpTo(S, n) == UNION {[1..k -> S] : k \in 0..n}

Created == Iso(2024, 1, 1, 0)

\* task ids are opaque strings: a tag and a number stand for one
Id(i) == <<"id", i>>

\* a collection whose i-th task has id Id(i) and the fields of the i-th shape
WithIds(shapes) ==
  [i \in 1..Len(shapes) |->
    Task(Id(i), shapes[i].title, shapes[i].revenue, shapes[i].timeTaken,
         shapes[i].priority, shapes[i].status, shapes[i].createdAt,
         shapes[i].completedAt)]

NoVelocity == [p \in Priorities |-> [avgDays |-> Zero, medianDays |-> Zero]]

NoFunnel ==
  [todo |-> 0, inProgress |-> 0, done |-> 0,
   conversionTodoToInProgress |-> Zero, conversionInProgressToDone |-> Zero]

EngineIdle ==
  /\ pc = "init"
  /\ derived = <<>> /\ sorted = <<>>
  /\ reordered = <<>> /\ sortedReordered = <<>>
  /\ avgROI = Zero
  /\ pipeline = Zero /\ pipelineAlt = Zero
  /\ velocity = NoVelocity /\ thrown = "none"
  /\ funnel = NoFunnel
  /\ cohort = <<>> /\ throughput = <<>>
  /\ weekly = <<>> /\ horizon = 0 /\ forecast = <<>>

StoreIdle ==
  /\ lastDeleted = <<>> /\ undoSeen = <<>>
  /\ loading = TRUE /\ error = "null"
  /\ initializedRef = FALSE /\ fetch = "idle"
  /\ uuids = 0
  /\ fetches = 0 /\ effectRuns = 0

(***************************************************************************)
(* Ranking: derivedSorted = sortTasks(tasks.map(withDerived)).             *)
(***************************************************************************)
SortShapes ==
  [title : {<<"a">>, <<"B">>},
   revenue : {Num(2)},
   timeTaken : {Num(0), Num(1), Num(2)},
   priority : Priorities,
   status : {"Todo"},
   createdAt : {Created},
   completedAt : {NoDate}]

InitSort ==
  /\ tasks \in {WithIds(sh) : sh \in SeqsUpTo(SortShapes, MaxTasks)}
  /\ EngineIdle
  /\ StoreIdle

\* the useMemo that computes derivedSorted
DerivedSorted ==
  /\ pc = "init"
  /\ derived' = MapDerived(tasks)
  /\ sorted' = sortTasks(derived')
  /\ pc' = "sorted"
  /\ UNCHANGED <<tasks, reordered, sortedReordered, avgROI, pipeline,
                 pipelineAlt, velocity, thrown, funnel, cohort, throughput,
                 weekly, horizon, forecast>>
  /\ UNCHANGED storeVars

NextSort == DerivedSorted

SpecSort == InitSort /\ [][NextSort]_vars

\* the bijections of 1..n
Orderings(n) ==
  {f \in [1..n -> 1..n] : \A i, j \in 1..n : f[i] = f[j] => i = j}

InitReorder ==
  /\ tasks \in {WithIds(sh) : sh \in SeqsUpTo(SortShapes, MaxReorder)}
  /\ EngineIdle
  /\ StoreIdle

\* sortTasks applied to the derived tasks and to another ordering of them
SortReordered ==
  /\ pc = "init"
  /\ derived' = MapDerived(tasks)
  /\ \E f \in Orderings(Len(tasks)) :
       reordered' = [i \in 1..Len(tasks) |-> derived'[f[i]]]
  /\ sorted' = sortTasks(derived')
  /\ sortedReordered' = sortTasks(reordered')
  /\ pc' = "reordered"
  /\ UNCHANGED <<tasks, avgROI, pipeline, pipelineAlt, velocity, thrown,
                 funnel, cohort, throughput, weekly, horizon, forecast>>
  /\ UNCHANGED storeVars

NextReorder == SortReordered

SpecReorder == InitReorder /\ [][NextReorder]_vars

\* C1: sortTasks returns the same sequence of tasks (by id) for every two
\* orderings of the same derived tasks, also when tasks tie on ROI,
\* priorityWeight and title.
SortOrderIndependent ==
  pc = "reordered" =>
    [i \in 1..Len(sorted) |-> sorted[i].id]
      = [i \in 1..Len(sortedReordered) |-> sortedReordered[i].id]

\* the ROI a task is ranked by: an undefined ROI counts as negative infinity
RankROI(t) == IF t.roi = Null THEN NegInf ELSE t.roi

\* a may stand directly before b in the ranking
InRankOrder(a, b) ==
  /\ NumLe(RankROI(b), RankROI(a))
  /\ RankROI(a) = RankROI(b) => a.priorityWeight >= b.priorityWeight
  /\ (RankROI(a) = RankROI(b) /\ a.priorityWeight = b.priorityWeight)
       => localeCompare(a.title, b.title) <= 0

\* C2: the output of sortTasks is a permutation of its input, every adjacent
\* pair is ordered by ROI descending (undefined ROI as negative infinity), then
\* priorityWeight descending, then title ascending; the input is unchanged.
SortedIsOrderedPermutation ==
  pc = "sorted" =>
    /\ Len(sorted) = Len(derived)
    /\ \E f \in Orderings(Len(derived)) :
         \A i \in 1..Len(derived) : sorted[i] = derived[f[i]]
    /\ \A i \in 1..(Len(sorted) - 1) : InRankOrder(sorted[i], sorted[i + 1])
    /\ derived = MapDerived(tasks)

\* a ranking of three tasks that moved a task, holds an undefined ROI and
\* needed all three keys
SortedWitness ==
  /\ pc = "sorted"
  /\ Len(sorted) = 3
  /\ sorted # derived
  /\ sorted[3].roi = Null
  /\ sorted[1].roi = sorted[2].roi
  /\ sorted[1].priorityWeight = sorted[2].priorityWeight
  /\ sorted[1].title # sorted[2].title
  /\ sorted[1].id[2] > sorted[2].id[2]

(***************************************************************************)
(* Week bucketing: computeThroughputByWeek and computeCohortRevenue.       *)
(***************************************************************************)
\* Mon 2024-01-01 (W1), Mon 2024-02-26 and Sun 2024-03-03 (W9) and
\* Mon 2024-03-04 (W10): weeks of one year
WeekDates ==
  {Iso(2024, 1, 1, 0), Iso(2024, 2, 26, 9), Iso(2024, 3, 3, 23),
   Iso(2024, 3, 4, 0)}

\* Tue 2024-01-02 (2024-W01), Sun 2024-12-29 (2024-W52), Mon 2024-12-30 and
\* Wed 2025-01-01 (both 2025-W01): weeks around a year boundary
YearEndDates ==
  {Iso(2024, 1, 2, 0), Iso(2024, 12, 29, 23), Iso(2024, 12, 30, 0),
   Iso(2025, 1, 1, 12)}

WeekShapes(dates) ==
  [title : {<<"a">>},
   revenue : {Num(5)},
   timeTaken : {Num(1)},
   priority : {"High", "Low"},
   status : {"Done"},
   createdAt : dates,
   completedAt : dates \cup {NoDate}]

InitWeek ==
  /\ tasks \in {WithIds(sh) : sh \in SeqsUpTo(WeekShapes(WeekDates), MaxWeekTasks)}
  /\ EngineIdle
  /\ StoreIdle

InitYearEnd ==
  /\ tasks \in {WithIds(sh) :
                  sh \in SeqsUpTo(WeekShapes(YearEndDates), MaxWeekTasks)}
  /\ EngineIdle
  /\ StoreIdle

Throughput ==
  /\ pc = "init"
  /\ throughput' = computeThroughputByWeek(tasks)
  /\ pc' = "throughput"
  /\ UNCHANGED <<tasks, derived, sorted, reordered, sortedReordered, avgROI,
                 pipeline, pipelineAlt, velocity, thrown, funnel, cohort,
                 weekly, horizon, forecast>>
  /\ UNCHANGED storeVars

Cohort ==
  /\ pc = "init"
  /\ cohort' = computeCohortRevenue(tasks)
  /\ pc' = "cohort"
  /\ UNCHANGED <<tasks, derived, sorted, reordered, sortedReordered, avgROI,
                 pipeline, pipelineAlt, velocity, thrown, funnel, throughput,
                 weekly, horizon, forecast>>
  /\ UNCHANGED storeVars

NextWeek == Throughput \/ Cohort

SpecWeek == InitWeek /\ [][NextWeek]_vars

SpecYearEnd == InitYearEnd /\ [][NextWeek]_vars

\* the number of the Monday-to-Sunday week a timestamp lies in, counted from
\* the week of Monday 1969-12-29
IsoWeekIndex(iso) == (DaysFromCivil(iso.y, iso.m, iso.d) + 3) \div 7

\* the position in a result of the bucket with the given week key
BucketIndex(buckets, key) ==
  CHOOSE i \in 1..Len(buckets) : buckets[i].week = key

CompletedIndexes == {i \in 1..Len(tasks) : HasCompletedAt(tasks[i])}

\* C3: computeThroughputByWeek returns its buckets in ascending chronological
\* week order: of two completed tasks in different weeks, the bucket of the
\* earlier week precedes the bucket of the later week.
ThroughputChronological ==
  pc = "throughput" =>
    \A i, j \in CompletedIndexes :
      IsoWeekIndex(tasks[i].completedAt) < IsoWeekIndex(tasks[j].completedAt)
        => BucketIndex(throughput, WeekKey(DateParse(tasks[i].completedAt)))
             < BucketIndex(throughput, WeekKey(DateParse(tasks[j].completedAt)))

\* C4: two tasks fall into the same throughput bucket (by completedAt), or
\* the same cohort week (by createdAt), if and only if their dates lie in the
\* same ISO week.
SameBucketIffSameIsoWeek ==
  /\ pc = "throughput" =>
       /\ Len(throughput)
            = Cardinality({IsoWeekIndex(tasks[i].completedAt) : i \in CompletedIndexes})
       /\ \A i, j \in CompletedIndexes :
            (BucketIndex(throughput, WeekKey(DateParse(tasks[i].completedAt)))
               = BucketIndex(throughput, WeekKey(DateParse(tasks[j].completedAt))))
              <=> (IsoWeekIndex(tasks[i].completedAt)
                     = IsoWeekIndex(tasks[j].completedAt))
  /\ pc = "cohort" =>
       /\ Cardinality({cohort[k].week : k \in 1..Len(cohort)})
            = Cardinality({IsoWeekIndex(tasks[i].createdAt) : i \in 1..Len(tasks)})
       /\ \A i, j \in 1..Len(tasks) :
            (WeekKey(DateParse(tasks[i].createdAt))
               = WeekKey(DateParse(tasks[j].createdAt)))
              <=> (IsoWeekIndex(tasks[i].createdAt)
                     = IsoWeekIndex(tasks[j].createdAt))

(***************************************************************************)
(* ROI: withDerived on single tasks, computeAverageROI on collections.     *)
(***************************************************************************)
ROIShapes ==
  [title : {<<"a">>},
   revenue : {NaN, PosInf, NegInf, Num(-3), Num(0), Num(3), Num(MaxDouble)},
   timeTaken : {NaN, PosInf, NegInf, Num(-2), Num(0), Fin(1, 2), Num(2),
                Num(MaxDouble)},
   priority : {"High"},
   status : {"Todo"},
   createdAt : {Created},
   completedAt : {NoDate}]

InitROI ==
  /\ tasks \in {WithIds(sh) : sh \in [{1} -> ROIShapes]}
  /\ EngineIdle
  /\ StoreIdle

Derive ==
  /\ pc = "init"
  /\ derived' = MapDerived(tasks)
  /\ pc' = "derived"
  /\ UNCHANGED <<tasks, sorted, reordered, sortedReordered, avgROI, pipeline,
                 pipelineAlt, velocity, thrown, funnel, cohort, throughput,
                 weekly, horizon, forecast>>
  /\ UNCHANGED storeVars

NextROI == Derive

SpecROI == InitROI /\ [][NextROI]_vars

\* t <= 0, or r or t is not a finite number
ROIUndefinedCase(r, t) == ~IsFinite(r) \/ ~IsFinite(t) \/ NumLe(t, Zero)

\* C6: computeROI(r, t) is null if and only if t <= 0 or r or t is not a finite
\* number; in every other case it equals r / t and is neither NaN nor infinite.
ROIDefinedIffFinite ==
  pc = "derived" =>
    \A i \in 1..Len(derived) :
      LET r == derived[i].revenue
          t == derived[i].timeTaken
      IN /\ derived[i].roi = Null <=> ROIUndefinedCase(r, t)
         /\ ~ROIUndefinedCase(r, t) =>
              /\ derived[i].roi = NumDiv(r, t)
              /\ IsFinite(derived[i].roi)

AverageShapes ==
  [title : {<<"a">>},
   revenue : {NaN, Num(-3), Num(3), Num(MaxDouble)},
   timeTaken : {Num(0), Fin(1, 2), Num(2)},
   priority : {"High"},
   status : {"Todo"},
   createdAt : {Created},
   completedAt : {NoDate}]

InitAverage ==
  /\ tasks \in {WithIds(sh) : sh \in SeqsUpTo(AverageShapes, MaxTasks)}
  /\ EngineIdle
  /\ StoreIdle

AverageROI ==
  /\ pc = "init"
  /\ avgROI' = computeAverageROI(tasks)
  /\ pc' = "average"
  /\ UNCHANGED <<tasks, derived, sorted, reordered, sortedReordered, pipeline,
                 pipelineAlt, velocity, thrown, funnel, cohort, throughput,
                 weekly, horizon, forecast>>
  /\ UNCHANGED storeVars

NextAverage == AverageROI

SpecAverage == InitAverage /\ [][NextAverage]_vars

\* the ROI of the i-th task
TaskROI(i) == computeROI(tasks[i].revenue, tasks[i].timeTaken)

\* the sum of the defined ROIs among the first n tasks, and how many they are
RECURSIVE DefinedROISum(_)
DefinedROISum(n) ==
  IF n = 0 THEN Zero
  ELSE IF TaskROI(n) = Null THEN DefinedROISum(n - 1)
  ELSE NumAdd(DefinedROISum(n - 1), TaskROI(n))

DefinedROICount == Cardinality({i \in 1..Len(tasks) : TaskROI(i) # Null})

\* C5: computeAverageROI is the sum of the defined ROIs divided by their
\* number, tasks with an undefined ROI counting in neither, and 0 when no task
\* has a defined ROI.
AverageOverDefinedROIs ==
  pc = "average" =>
    IF DefinedROICount = 0
      THEN avgROI = Zero
      ELSE avgROI = NumDiv(DefinedROISum(Len(tasks)), Num(DefinedROICount))

\* an average over two different defined ROIs, a third task's being undefined
AverageWitness ==
  /\ pc = "average"
  /\ Len(tasks) = 3
  /\ TaskROI(2) = Null
  /\ TaskROI(1) = Num(6)
  /\ TaskROI(3) = Fin(-3, 2)
  /\ avgROI = Fin(9, 4)

(***************************************************************************)
(* Records with a priority or a status outside the enumerations, as        *)
(* fetched JSON may hold them (normalizeTasks copies both unchecked).      *)
(***************************************************************************)
RobustShapes ==
  [title : {<<"a">>},
   revenue : {Num(10)},
   timeTaken : {Num(1)},
   priority : {"High", "Urgent"},
   status : {"Todo", "In Progress", "Done", "Blocked"},
   createdAt : {Created},
   completedAt : {NoDate, Iso(2024, 1, 3, 0)}]

InitRobust ==
  /\ tasks \in {WithIds(sh) : sh \in SeqsUpTo(RobustShapes, MaxTasks)}
  /\ EngineIdle
  /\ StoreIdle

Pipeline ==
  /\ pc = "init"
  /\ pipeline' = computeWeightedPipeline(tasks)
  /\ pc' = "pipeline"
  /\ UNCHANGED <<tasks, derived, sorted, reordered, sortedReordered, avgROI,
                 pipelineAlt, velocity, thrown, funnel, cohort, throughput,
                 weekly, horizon, forecast>>
  /\ UNCHANGED storeVars

PipelineCopy ==
  /\ pc = "init"
  /\ pipelineAlt' = computeWeightedPipelineCopy(tasks)
  /\ pc' = "pipelineCopy"
  /\ UNCHANGED <<tasks, derived, sorted, reordered, sortedReordered, avgROI,
                 pipeline, velocity, thrown, funnel, cohort, throughput,
                 weekly, horizon, forecast>>
  /\ UNCHANGED storeVars

Velocity ==
  /\ pc = "init"
  /\ IF VelocityThrows(tasks)
       THEN thrown' = "TypeError" /\ velocity' = velocity
       ELSE thrown' = "none" /\ velocity' = computeVelocityByPriority(tasks)
  /\ pc' = "velocity"
  /\ UNCHANGED <<tasks, derived, sorted, reordered, sortedReordered, avgROI,
                 pipeline, pipelineAlt, funnel, cohort, throughput, weekly,
                 horizon, forecast>>
  /\ UNCHANGED storeVars

Funnel ==
  /\ pc = "init"
  /\ funnel' = computeFunnel(tasks)
  /\ pc' = "funnel"
  /\ UNCHANGED <<tasks, derived, sorted, reordered, sortedReordered, avgROI,
                 pipeline, pipelineAlt, velocity, thrown, cohort, throughput,
                 weekly, horizon, forecast>>
  /\ UNCHANGED storeVars

NextRobust ==
  Derive \/ Pipeline \/ PipelineCopy \/ Velocity \/ Funnel \/ Cohort

SpecRobust == InitRobust /\ [][NextRobust]_vars

\* the sum of revenue * weight over the first n tasks, those with a
\* recognized status only
RECURSIVE RecognizedPipeline(_)
RecognizedPipeline(n) ==
  IF n = 0 THEN Zero
  ELSE IF tasks[n].status \notin Statuses THEN RecognizedPipeline(n - 1)
  ELSE NumAdd(RecognizedPipeline(n - 1),
              NumMul(tasks[n].revenue,
                     CASE tasks[n].status = "Todo" -> Fin(1, 10)
                       [] tasks[n].status = "In Progress" -> Fin(1, 2)
                       [] tasks[n].status = "Done" -> Num(1)))

\* C7: a task with an unrecognized priority or status never makes an engine
\* function fail: its priorityWeight is 1, computeWeightedPipeline counts it
\* with weight 0 (the sum of revenue * weight over the recognized tasks), and
\* computeVelocityByPriority, computeFunnel and computeCohortRevenue return.
UnknownValuesNeverFail ==
  /\ thrown = "none"
  /\ pc = "derived" =>
       \A i \in 1..Len(tasks) :
         tasks[i].priority \notin Priorities => derived[i].priorityWeight = 1
  /\ pc = "pipeline" =>
       /\ IsFinite(pipeline)
       /\ pipeline = RecognizedPipeline(Len(tasks))
  /\ pc = "pipelineCopy" =>
       /\ IsFinite(pipelineAlt)
       /\ pipelineAlt = RecognizedPipeline(Len(tasks))

(***************************************************************************)
(* computeVelocityByPriority.                                              *)
(***************************************************************************)
\* completed 1.46, 3.5 and -1 days after Created: 1, 4 and 0 whole days
VelocityShapes ==
  [title : {<<"a">>},
   revenue : {Num(10)},
   timeTaken : {Num(1)},
   priority : {"High", "Low", "Urgent"},
   status : {"Done"},
   createdAt : {Created},
   completedAt : {NoDate, Iso(2024, 1, 2, 11), Iso(2024, 1, 4, 12),
                  Iso(2023, 12, 31, 0)}]

InitVelocity ==
  /\ tasks \in {WithIds(sh) : sh \in SeqsUpTo(VelocityShapes, MaxTasks)}
  /\ EngineIdle
  /\ StoreIdle

NextVelocity == Velocity

SpecVelocity == InitVelocity /\ [][NextVelocity]_vars

\* the completed tasks of priority p
CompletedOf(p) ==
  {i \in 1..Len(tasks) : tasks[i].priority = p /\ HasCompletedAt(tasks[i])}

DaysOf(i) == daysBetween(tasks[i].createdAt, tasks[i].completedAt)

RECURSIVE SumDays(_)
SumDays(S) ==
  IF S = {} THEN 0
  ELSE LET i == CHOOSE j \in S : TRUE IN DaysOf(i) + SumDays(S \ {i})

\* m is the element at index floor(n/2) (from 0) of the ascending values
IsUpperMedian(m, S) ==
  LET half == Cardinality(S) \div 2
  IN /\ \E i \in S : DaysOf(i) = m
     /\ Cardinality({i \in S : DaysOf(i) < m}) <= half
     /\ Cardinality({i \in S : DaysOf(i) <= m}) > half

VelocityAsClaimed ==
  \A p \in Priorities :
    LET S == CompletedOf(p)
    IN IF S = {}
         THEN velocity[p] = [avgDays |-> Zero, medianDays |-> Zero]
         ELSE /\ velocity[p].avgDays = Fin(SumDays(S), Cardinality(S))
              /\ velocity[p].medianDays.k = "fin"
              /\ velocity[p].medianDays.d = 1
              /\ IsUpperMedian(velocity[p].medianDays.n, S)

\* C9: for each priority bucket computeVelocityByPriority reports the mean and
\* the upper median of daysBetween(createdAt, completedAt) over exactly the
\* completed tasks of that priority, and 0 and 0 for a bucket without one.
VelocityMeanAndMedian ==
  pc = "velocity" => thrown = "none" /\ VelocityAsClaimed

\* the same statement for the collections on which the call returns
VelocityMeanAndMedianWhenReturned ==
  (pc = "velocity" /\ thrown = "none") => VelocityAsClaimed

(***************************************************************************)
(* computeForecast.                                                        *)
(***************************************************************************)
SeriesPoints == [week : {<<"W">>}, revenue : {Num(0), Num(10), Num(20), Num(30)}]

InitForecast ==
  /\ tasks = <<>>
  /\ pc = "init"
  /\ derived = <<>> /\ sorted = <<>>
  /\ reordered = <<>> /\ sortedReordered = <<>>
  /\ avgROI = Zero
  /\ pipeline = Zero /\ pipelineAlt = Zero
  /\ velocity = NoVelocity /\ thrown = "none"
  /\ funnel = NoFunnel
  /\ cohort = <<>> /\ throughput = <<>>
  /\ weekly \in SeqsUpTo(SeriesPoints, MaxSeries)
  /\ horizon \in 0..MaxHorizon
  /\ forecast = <<>>
  /\ StoreIdle

Forecast ==
  /\ pc = "init"
  /\ forecast' = computeForecast(weekly, horizon)
  /\ pc' = "forecast"
  /\ UNCHANGED <<tasks, derived, sorted, reordered, sortedReordered, avgROI,
                 pipeline, pipelineAlt, velocity, thrown, funnel, cohort,
                 throughput, weekly, horizon>>
  /\ UNCHANGED storeVars

NextForecast == Forecast

SpecForecast == InitForecast /\ [][NextForecast]_vars

\* exact rational arithmetic on pairs <<numerator, denominator>> in lowest
\* terms with a positive denominator
Q(n, d) ==
  LET g == Gcd(Abs(n), Abs(d))
      sg == IF d < 0 THEN -1 ELSE 1
  IN <<(sg * n) \div g, (sg * d) \div g>>

QAdd(a, b) == Q(a[1] * b[2] + b[1] * a[2], a[2] * b[2])

QSub(a, b) == Q(a[1] * b[2] - b[1] * a[2], a[2] * b[2])

QMul(a, b) == Q(a[1] * b[1], a[2] * b[2])

QDiv(a, b) == Q(a[1] * b[2], a[2] * b[1])

QNum(q) == Fin(q[1], q[2])

Revenue(i) == <<weekly[i].revenue.n, weekly[i].revenue.d>>

RECURSIVE QSum(_, _)
QSum(F, n) == IF n = 0 THEN <<0, 1>> ELSE QAdd(QSum(F, n - 1), F[n])

\* the least-squares line through the points (i - 1, Revenue(i)), i = 1..n:
\* slope = sum((x - mx)(y - my)) / sum((x - mx)^2), intercept = my - slope * mx
FitMeanX == <<Len(weekly) - 1, 2>>

FitMeanY ==
  QDiv(QSum([i \in 1..Len(weekly) |-> Revenue(i)], Len(weekly)), <<Len(weekly), 1>>)

FitSlope ==
  LET n == Len(weekly)
      dx == [i \in 1..n |-> QSub(<<i - 1, 1>>, FitMeanX)]
      dy == [i \in 1..n |-> QSub(Revenue(i), FitMeanY)]
  IN QDiv(QSum([i \in 1..n |-> QMul(dx[i], dy[i])], n),
          QSum([i \in 1..n |-> QMul(dx[i], dx[i])], n))

FitIntercept == QSub(FitMeanY, QMul(FitSlope, FitMeanX))

\* the fitted line at x, floored at zero
FitAt(x) ==
  LET v == QNum(QAdd(QMul(FitSlope, <<x, 1>>), FitIntercept))
  IN IF v.n < 0 THEN Zero ELSE v

Now == Iso(2024, 6, 1, 0)

\* crypto.randomUUID(): the n-th value drawn, different from all other ids
Uuid(n) == <<"uuid", n>>

\* an absent id, status or timeTaken of a payload or a patch
NoId == <<"none", 0>>

NoStatus == "absent"

\* a task of the store.  wasDone is a history field that the code does not
\* have: whether the task has status Done now or had it at an earlier point
\* of its life (object spreads copy it along with the task).
StoreTask(id, status, completedAt) ==
  [id |-> id, title |-> <<"a">>, revenue |-> Num(10), timeTaken |-> Num(1),
   priority |-> "High", status |-> status, createdAt |-> Now,
   completedAt |-> completedAt, wasDone |-> (status = "Done")]

\* generateSalesTasks(n): seed tasks with ids of their own
generateSalesTasks == <<StoreTask(<<"seed", 1>>, "Todo", NoDate)>>

\* what /tasks.json may hold: nothing, valid records with distinct ids, or a
\* record that normalizeTasks drops
FetchedData ==
  {<<>>,
   <<StoreTask(Id(1), "Todo", NoDate)>>,
   <<StoreTask(Id(1), "Todo", NoDate), StoreTask(Id(2), "Done", Now)>>,
   <<[StoreTask(Id(1), "Todo", NoDate) EXCEPT !.timeTaken = Num(0)]>>}

\* the filter of normalizeTasks: t.title && t.revenue != null && t.timeTaken > 0
NormalizeKeeps(t) ==
  t.title # <<>> /\ t.revenue # Null /\ NumLt(Zero, t.timeTaken)

\* normalizeTasks(input) for records that carry an id and a createdAt
normalizeTasks(input) == SelectSeq(input, NormalizeKeeps)

InitStore ==
  /\ tasks = <<>>
  /\ EngineIdle
  /\ StoreIdle

\* the mount effect without its guard on the ref
MountEffectUnguarded ==
  /\ effectRuns < MaxEffectRuns
  /\ effectRuns' = effectRuns + 1
  /\ initializedRef' = TRUE
  /\ fetch' = "inflight"
  /\ fetches' = fetches + 1
  /\ UNCHANGED <<tasks, pc, lastDeleted, undoSeen, loading, error, uuids>>
  /\ UNCHANGED engineVars

\* the mount effect: it starts the load unless the ref says it has run
MountEffect ==
  /\ effectRuns < MaxEffectRuns
  /\ effectRuns' = effectRuns + 1
  /\ IF initializedRef
       THEN UNCHANGED <<initializedRef, fetch, fetches>>
       ELSE /\ initializedRef' = TRUE
            /\ fetch' = "inflight"
            /\ fetches' = fetches + 1
  /\ UNCHANGED <<tasks, pc, lastDeleted, undoSeen, loading, error, uuids>>
  /\ UNCHANGED engineVars

\* loadTasks after the fetch settled: with data, with a non-OK response
\* (data = []), or with a failure
LoadSettled ==
  /\ fetch = "inflight"
  /\ \/ \E data \in FetchedData :
          /\ tasks' = IF Len(normalizeTasks(data)) # 0
                        THEN normalizeTasks(data)
                        ELSE generateSalesTasks
          /\ error' = error
     \/ /\ tasks' = generateSalesTasks
        /\ error' = "Failed to load tasks"
  /\ loading' = FALSE
  /\ fetch' = "settled"
  /\ UNCHANGED <<pc, lastDeleted, undoSeen, initializedRef, uuids>>
  /\ UNCHANGED <<fetches, effectRuns>>
  /\ UNCHANGED engineVars

\* the payloads given to addTask: with or without an id, with or without a
\* completedAt
AddPayloads ==
  [id : {NoId, Id(1)}, status : {"Todo", "Done"}, timeTaken : {Num(0), Num(1)},
   completedAt : {NoDate, Now}]

addTask(prev, task, uuid) ==
  Append(prev,
    [StoreTask(IF task.id # NoId THEN task.id ELSE uuid, task.status,
               IF task.status = "Done" THEN Now ELSE NoDate)
       EXCEPT !.timeTaken = IF NumLt(Zero, task.timeTaken)
                              THEN task.timeTaken ELSE Num(1),
              !.createdAt = Now])

AddTask ==
  /\ Len(tasks) < MaxStore
  /\ \E task \in AddPayloads :
       /\ task.id = NoId => uuids < MaxUuid
       /\ tasks' = addTask(tasks, task, Uuid(uuids + 1))
       /\ uuids' = IF task.id = NoId THEN uuids + 1 ELSE uuids
  /\ UNCHANGED <<pc, lastDeleted, undoSeen, loading, error, initializedRef,
                 fetch>>
  /\ UNCHANGED <<fetches, effectRuns>>
  /\ UNCHANGED engineVars

\* the patches given to updateTask: each field present or absent (completedAt
\* as a sequence, empty when the patch has none)
Patches ==
  [id : {NoId, Id(1)}, status : {NoStatus, "Todo", "Done"},
   timeTaken : {Null, Num(0), Num(1)}, completedAt : {<<>>, <<Now>>}]

updateTask(prev, id, patch) ==
  [i \in 1..Len(prev) |->
    LET t == prev[i]
    IN IF t.id = id
         THEN [t EXCEPT
                 !.id = IF patch.id # NoId THEN patch.id ELSE t.id,
                 !.status = IF patch.status # NoStatus THEN patch.status
                            ELSE t.status,
                 !.timeTaken = IF patch.timeTaken # Null
                                    /\ NumLt(Zero, patch.timeTaken)
                                 THEN patch.timeTaken ELSE t.timeTaken,
                 !.completedAt = IF t.status # "Done" /\ patch.status = "Done"
                                   THEN Now ELSE t.completedAt,
                 !.wasDone = @ \/ patch.status = "Done"]
         ELSE t]

\* the ids a handler may be called with: those in the store and one that is not
CallIds == {tasks[i].id : i \in 1..Len(tasks)} \cup {Id(2)}

UpdateTask ==
  /\ \E id \in CallIds, patch \in Patches :
       tasks' = updateTask(tasks, id, patch)
  /\ UNCHANGED <<pc, lastDeleted, undoSeen, loading, error, initializedRef,
                 fetch, uuids>>
  /\ UNCHANGED <<fetches, effectRuns>>
  /\ UNCHANGED engineVars

\* prev.find(t => t.id === id) || null, as a sequence of at most one task
FindTask(prev, id) ==
  IF \E i \in 1..Len(prev) : prev[i].id = id
    THEN <<prev[CHOOSE i \in 1..Len(prev) :
                  /\ prev[i].id = id
                  /\ \A j \in 1..(i - 1) : prev[j].id # id]>>
    ELSE <<>>

\* prev.filter(t => t.id !== id)
deleteTask(prev, id) == SelectSeq(prev, LAMBDA t : t.id # id)

DeleteTask ==
  /\ \E id \in CallIds :
       /\ lastDeleted' = FindTask(tasks, id)
       /\ tasks' = deleteTask(tasks, id)
  /\ UNCHANGED <<pc, undoSeen, loading, error, initializedRef, fetch, uuids>>
  /\ UNCHANGED <<fetches, effectRuns>>
  /\ UNCHANGED engineVars

\* [...prev, lastDeleted] with the lastDeleted the closure was rendered with
undoDelete(prev, seen) == prev \o seen

UndoDelete ==
  /\ Len(tasks) < MaxStore
  /\ IF undoSeen = <<>>
       THEN UNCHANGED <<tasks, lastDeleted>>
       ELSE tasks' = undoDelete(tasks, undoSeen) /\ lastDeleted' = <<>>
  /\ UNCHANGED <<pc, undoSeen, loading, error, initializedRef, fetch, uuids>>
  /\ UNCHANGED <<fetches, effectRuns>>
  /\ UNCHANGED engineVars

ClearLastDeleted ==
  /\ lastDeleted' = <<>>
  /\ UNCHANGED <<tasks, pc, undoSeen, loading, error, initializedRef, fetch,
                 uuids>>
  /\ UNCHANGED <<fetches, effectRuns>>
  /\ UNCHANGED engineVars

\* a re-render: useCallback builds undoDelete anew over the current lastDeleted
Render ==
  /\ undoSeen # lastDeleted
  /\ undoSeen' = lastDeleted
  /\ UNCHANGED <<tasks, pc, lastDeleted, loading, error, initializedRef, fetch,
                 uuids>>
  /\ UNCHANGED <<fetches, effectRuns>>
  /\ UNCHANGED engineVars

NextStore ==
  \/ MountEffect
  \/ LoadSettled
  \/ AddTask
  \/ UpdateTask
  \/ DeleteTask
  \/ UndoDelete
  \/ ClearLastDeleted
  \/ Render

SpecStore == InitStore /\ [][NextStore]_vars

\* C10: no two tasks in the store share an id, the loaded tasks having
\* pairwise distinct ids, after any sequence of addTask, updateTask, deleteTask
\* and undoDelete calls.
TaskIdsUnique ==
  \A i, j \in 1..Len(tasks) : tasks[i].id = tasks[j].id => i = j

(***************************************************************************)
(* The hook as written in src/hooks/useTasks.ts.  Its load, addTask and    *)
(* updateTask differ from the ones above: the fetched data is stored as it *)
(* comes, and both handlers are plain object spreads.                      *)
(***************************************************************************)
\* fetch(...).then(res => res.ok ? res.json() : []).then(data => setTasks(
\* data.length ? data : generateSalesTasks(30))).finally(setLoading(false));
\* a rejected fetch leaves tasks alone
LoadSettledThen ==
  /\ fetch = "inflight"
  /\ \/ \E data \in FetchedData :
          tasks' = IF Len(data) # 0 THEN data ELSE generateSalesTasks
     \/ UNCHANGED tasks
  /\ loading' = FALSE
  /\ fetch' = "settled"
  /\ UNCHANGED <<pc, lastDeleted, undoSeen, error, initializedRef, uuids>>
  /\ UNCHANGED <<fetches, effectRuns>>
  /\ UNCHANGED engineVars

\* [...prev, {...task, id: crypto.randomUUID(), createdAt: task.createdAt ?? now}]
addTaskSpread(prev, task, uuid) ==
  Append(prev,
    [StoreTask(uuid, task.status, task.completedAt)
       EXCEPT !.timeTaken = task.timeTaken])

AddTaskSpread ==
  /\ Len(tasks) < MaxStore
  /\ uuids < MaxUuid
  /\ \E task \in AddPayloads :
       tasks' = addTaskSpread(tasks, task, Uuid(uuids + 1))
  /\ uuids' = uuids + 1
  /\ UNCHANGED <<pc, lastDeleted, undoSeen, loading, error, initializedRef,
                 fetch>>
  /\ UNCHANGED <<fetches, effectRuns>>
  /\ UNCHANGED engineVars

\* prev.map(t => (t.id === id ? {...t, ...patch} : t))
updateTaskSpread(prev, id, patch) ==
  [i \in 1..Len(prev) |->
    LET t == prev[i]
    IN IF t.id = id
         THEN [t EXCEPT
                 !.id = IF patch.id # NoId THEN patch.id ELSE @,
                 !.status = IF patch.status # NoStatus THEN patch.status ELSE @,
                 !.timeTaken = IF patch.timeTaken # Null
                                 THEN patch.timeTaken ELSE @,
                 !.completedAt = IF patch.completedAt # <<>>
                                   THEN patch.completedAt[1] ELSE @,
                 !.wasDone = @ \/ patch.status = "Done"]
         ELSE t]

UpdateTaskSpread ==
  /\ \E id \in CallIds, patch \in Patches :
       tasks' = updateTaskSpread(tasks, id, patch)
  /\ UNCHANGED <<pc, lastDeleted, undoSeen, loading, error, initializedRef,
                 fetch, uuids>>
  /\ UNCHANGED <<fetches, effectRuns>>
  /\ UNCHANGED engineVars

NextUseTasks ==
  \/ MountEffect
  \/ LoadSettledThen
  \/ AddTaskSpread
  \/ UpdateTaskSpread

SpecUseTasks == InitStore /\ [][NextUseTasks]_vars

\* C11: completedAt is present only once status reaches Done: the loaded
\* tasks satisfying it, after any sequence of addTask and updateTask calls
\* every task that carries a completedAt has status Done now or had status
\* Done at an earlier point of its life.
CompletedAtOnlyOnceDone ==
  \A i \in 1..Len(tasks) : HasCompletedAt(tasks[i]) => tasks[i].wasDone

(***************************************************************************)
(* The load alone, with the handlers that may be called while it is in     *)
(* flight.  The fetch of either version of the hook settles: a pending     *)
(* promise is resolved or rejected and its continuation is run.            *)
(***************************************************************************)
Settle == LoadSettled \/ LoadSettledThen

NextLoad ==
  \/ MountEffect
  \/ LoadSettled
  \/ LoadSettledThen
  \/ AddTask
  \/ UpdateTask

SpecLoad == InitStore /\ [][NextLoad]_vars /\ WF_vars(Settle)

\* C12: tasks are loaded only once: however many times the mount effect
\* runs, the fetch of the seed data is issued at most once, and once it is
\* issued loading eventually becomes false on every outcome (success, non-OK
\* response, failure).
LoadedOnlyOnce ==
  /\ [](fetches <= 1)
  /\ (fetches > 0) ~> (loading = FALSE)

\* the effect has run twice, one fetch was issued, it failed, loading is off
LoadedOnlyOnceWitness ==
  /\ effectRuns = 2
  /\ fetches = 1
  /\ fetch = "settled"
  /\ error = "Failed to load tasks"
  /\ loading = FALSE

(***************************************************************************)
(* Delete and undo.                                                        *)
(***************************************************************************)
TaskSet(ts) == {ts[i] : i \in 1..Len(ts)}

\* a deleteTask(id) step for an id present in the store
DeletesPresent ==
  \E id \in CallIds :
    /\ FindTask(tasks, id) # <<>>
    /\ lastDeleted' = FindTask(tasks, id)
    /\ tasks' = deleteTask(tasks, id)

\* it removes that task, and nothing else, and records it
DeleteRemovesAndRecords ==
  /\ TaskSet(tasks) = TaskSet(tasks') \cup {lastDeleted'[1]}
  /\ lastDeleted'[1] \notin TaskSet(tasks')

\* undoDelete puts the recorded task back and clears the record, or leaves
\* the store alone when nothing is recorded
UndoPutsBack ==
  IF lastDeleted # <<>>
    THEN /\ TaskSet(tasks') = TaskSet(tasks) \cup {lastDeleted[1]}
         /\ lastDeleted' = <<>>
    ELSE tasks' = tasks

\* C13: deleteTask(id) for an id present removes that task and records it as
\* lastDeleted; an undoDelete that follows, with no other deleteTask or
\* clearLastDeleted in between, puts exactly that task back and sets
\* lastDeleted to null; undoDelete with lastDeleted null leaves the store
\* unchanged.
DeleteThenUndoRestores ==
  [][/\ DeletesPresent => DeleteRemovesAndRecords
     /\ UndoDelete => UndoPutsBack]_vars

\* the same for a store whose ids are unique and an undoDelete that was
\* rendered with the current lastDeleted
DeleteThenUndoRestoresWhenRendered ==
  [][/\ (TaskIdsUnique /\ DeletesPresent) => DeleteRemovesAndRecords
     /\ (undoSeen = lastDeleted /\ UndoDelete) => UndoPutsBack]_vars

\* C14: a change made through addTask, updateTask or deleteTask while the
\* initial load is in flight is not lost: when the load completes, every task
\* that was in the collection just before, added while the load was in
\* flight, is still in the collection.
ChangesSurviveLoad ==
  [][(fetch = "inflight" /\ fetch' = "settled")
       => TaskSet(tasks) \subseteq TaskSet(tasks')]_vars

====
